---- MODULE Spec2Model ----
(***************************************************************************)
(* A model of secret_santa (src/src/secret_santa/__init__.py and           *)
(* __main__.py): participant normalization, the two-phase assignment       *)
(* solver (random permutations, then Kuhn's bipartite matching), and the   *)
(* main / command-line flow around them.                                   *)
(*                                                                         *)
(* Python values are records [t, s, l]: t is the Python type, s the text   *)
(* of a scalar, l the elements of a list or tuple.  A participant record   *)
(* (a Python dict) is [t |-> "dict", name, ex]; a key that is missing is   *)
(* the value of type "absent", which dict.get turns into None.             *)
(* A Python dict whose iteration order is observable (match_r, the         *)
(* returned mapping) is a sequence of <<key, value>> pairs in insertion    *)
(* order; the exclusions dict, which is only looked up, is a function.     *)
(***************************************************************************)
EXTENDS Integers, Sequences, FiniteSets, TLC

VARIABLES
    participants,   \* the raw participants list given to create_mapping
    ban_self,       \* create_mapping's ban_self argument
    pc,             \* position in the program
    err,            \* message of the exception raised, "" when none
    item_idx,       \* _normalize_participants: index of the next item
    names,          \* _normalize_participants: names / create_mapping: people
    exclusions,     \* the exclusions dict, name -> set of strings
    targets,        \* _try_random_permutation_exclusions: the shuffled list
    attempt,        \* number of attempts of the random phase made so far
    rand_map,       \* create_mapping: rand_map
    allowed,        \* create_mapping: allowed, name -> list of names
    u_idx,          \* _maximum_bipartite_matching: index of the left node u
    match_r,        \* _maximum_bipartite_matching: match_r (right -> left)
    mapping,        \* the mapping create_mapping returned
    entry,          \* "api": create_mapping is called; "cli": the command runs
    path_given,     \* --participants was given
    found,          \* the participant sources that exist on disk
    file,           \* the parsed JSON of the participants file that is read
    outdir,         \* the outdir argument
    has_reportlab,  \* _HAS_REPORTLAB
    render_fault,   \* the file system refuses the output directory
    render,         \* outcome of write_pairing_pdfs
    pdfs,           \* the givers whose PDF was written
    stdout,         \* the lines printed, in order
    main_ret,       \* the value main returned
    exit_code       \* the exit code of the command, -1 while it runs

solver_vars == <<participants, ban_self, pc, err, item_idx, names, exclusions,
                 targets, attempt, rand_map, allowed, u_idx, match_r, mapping>>
main_vars == <<entry, path_given, found, file, outdir, has_reportlab, render_fault,
               render, pdfs, stdout, main_ret, exit_code>>
vars == <<solver_vars, main_vars>>

-----------------------------------------------------------------------------
(* Python values *)

PyNone == [t |-> "none", s |-> "", l |-> <<>>]
PyAbsent == [t |-> "absent", s |-> "", l |-> <<>>]
PyStr(x) == [t |-> "str", s |-> x, l |-> <<>>]
PyInt(d) == [t |-> "int", s |-> d, l |-> <<>>]
PyBool(b) == [t |-> "bool", s |-> b, l |-> <<>>]
PyList(q) == [t |-> "list", s |-> "", l |-> q]
PyTuple(q) == [t |-> "tuple", s |-> "", l |-> q]
PyEmptyDict == [t |-> "dict", s |-> "", l |-> <<>>]
PyDict(n, e) == [t |-> "dict", name |-> n, ex |-> e]

Range(q) == {q[j] : j \in DOMAIN q}

\* dict.get(key): the value, or None when the key is missing
Get(x) == IF x.t = "absent" THEN PyNone ELSE x

\* Python truthiness, as used by `item.get("exclusions") or []` and `if outdir:`
Truthy(x) ==
    CASE x.t \in {"none", "absent"} -> FALSE
      [] x.t = "str" -> x.s # ""
      [] x.t = "int" -> x.s # "0"
      [] x.t = "bool" -> x.s = "True"
      [] x.t \in {"list", "tuple"} -> x.l # <<>>
      [] x.t = "dict" -> x.s # ""

\* str(e) of an exclusion entry: a string is itself, a number its decimal text
Str(e) == IF e.t = "none" THEN "None" ELSE e.s

\* `x or []`
OrEmptyList(x) == IF Truthy(x) THEN x ELSE PyList(<<>>)

\* isinstance(ex, (list, tuple))
IsListOrTuple(x) == x.t \in {"list", "tuple"}

-----------------------------------------------------------------------------
(* Messages of the exceptions *)

ErrName == "Each participant must have a string 'name' field"
ErrDuplicate == "Duplicate participant names not supported"
ErrExclusions == "'exclusions' must be a list of names"
ErrEntry == "Invalid participant entry; expected dict or string"
ErrNoMapping == "No valid mapping exists for given participants and constraints"
NormErrors == {ErrName, ErrDuplicate, ErrExclusions, ErrEntry}

-----------------------------------------------------------------------------
(* Bounds and inputs *)

\* Attempts of the random phase made in the model; the code's default is 2000
\* (attempts: int = 2000).  No step of the program reads the count except to
\* stop the loop, so a small number of attempts shows every outcome.
MaxAttempts == 2

\* Longest list of free-form entries (any of RichItems) given as input
MaxRich == 2

\* The names of the people of a well-formed input, in input order
PeoplePool == <<"A", "B", "C">>

\* The names an exclusions list of a well-formed input draws from; "Ghost" is
\* nobody's name
ExclPool == <<"A", "B", "C", "Ghost">>

RECURSIVE Pick(_, _)
\* the elements of q that are in S, in q's order
Pick(q, S) ==
    IF q = <<>> THEN <<>>
    ELSE (IF Head(q) \in S THEN <<PyStr(Head(q))>> ELSE <<>>) \o Pick(Tail(q), S)

ExclLists == {PyList(Pick(ExclPool, S)) : S \in SUBSET Range(ExclPool)}

\* Well-formed inputs: the first n people, each a record with a list of names
WellFormedInputs ==
    UNION {{[j \in 1..n |-> PyDict(PyStr(PeoplePool[j]), ex[j])] :
                ex \in [1..n -> ExclLists]} : n \in 0..Len(PeoplePool)}

\* Values of an "exclusions" field, of every type
ExclValues ==
    {PyAbsent, PyNone,
     PyList(<<>>), PyList(<<PyStr("B")>>), PyList(<<PyStr("Ghost"), PyStr("1")>>),
     PyList(<<PyInt("1"), PyStr("B"), PyStr("B")>>),
     PyTuple(<<>>), PyTuple(<<PyStr("B")>>),
     PyStr(""), PyStr("B"), PyInt("0"), PyInt("1"),
     PyBool("False"), PyBool("True"), PyEmptyDict}

\* Entries of every form: bare names, records, and malformed entries
RichItems ==
    {PyStr("A"), PyStr("B"), PyStr("1"), PyInt("7"), PyNone,
     PyDict(PyAbsent, PyAbsent), PyDict(PyInt("1"), PyList(<<>>))}
    \cup {PyDict(PyStr("A"), e) : e \in ExclValues}
    \cup {PyDict(PyStr("B"), e) :
            e \in {PyAbsent, PyList(<<PyStr("A")>>), PyInt("0"), PyStr("A")}}

RichInputs == UNION {[1..n -> RichItems] : n \in 0..MaxRich}

Inputs == WellFormedInputs \cup RichInputs

-----------------------------------------------------------------------------
(* Python dicts that keep insertion order: sequences of <<key, value>> *)

DictKeys(d) == {d[j][1] : j \in DOMAIN d}
DictValues(d) == {d[j][2] : j \in DOMAIN d}
DictHas(d, k) == k \in DictKeys(d)
DictGet(d, k) == d[CHOOSE j \in DOMAIN d : d[j][1] = k][2]
\* d[k] = v: a new key goes last, a known key keeps its place
DictSet(d, k, v) ==
    IF DictHas(d, k)
    THEN [j \in DOMAIN d |-> IF d[j][1] = k THEN <<k, v>> ELSE d[j]]
    ELSE Append(d, <<k, v>>)

RECURSIVE DictFromPairs(_)
\* dict(pairs), and a dict comprehension over pairs
DictFromPairs(q) ==
    IF q = <<>> THEN <<>>
    ELSE LET rest == DictFromPairs(SubSeq(q, 1, Len(q) - 1))
             last == q[Len(q)]
         IN DictSet(rest, last[1], last[2])

\* zip(people, targets)
Zip(a, b) ==
    LET n == IF Len(a) < Len(b) THEN Len(a) ELSE Len(b)
    IN [j \in 1..n |-> <<a[j], b[j]>>]

\* {left: right for right, left in match_r.items()}
InvertDict(d) == DictFromPairs([j \in DOMAIN d |-> <<d[j][2], d[j][1]>>])

None == [none |-> TRUE, d |-> <<>>]
Some(d) == [none |-> FALSE, d |-> d]

-----------------------------------------------------------------------------
(* _normalize_participants *)

\* Duplicate with the test left out
NeverDuplicate(name, known) == FALSE

\* `name in names`, the duplicate test of both branches
Duplicate(name, known) == name \in Range(known)

\* FilterKnown with the filter left out
FilterNothing(ex, known) == ex

\* {e for e in exclusions[k] if e in names}
FilterKnown(ex, known) == {e \in ex : e \in Range(known)}

\* exclusions[name] = value
SetExclusions(excl, name, value) ==
    [k \in DOMAIN excl \cup {name} |-> IF k = name THEN value ELSE excl[k]]

\* One iteration of the loop over participants: the names and exclusions
\* after it, and the message of the ValueError it raised ("" when none).
NormalizeStep(item, known, excl) ==
    IF item.t = "dict" THEN
        LET name == Get(item.name) IN
        IF name.t # "str" THEN [err |-> ErrName, names |-> known, exclusions |-> excl]
        ELSE IF Duplicate(name.s, known)
        THEN [err |-> ErrDuplicate, names |-> known, exclusions |-> excl]
        ELSE LET ex == OrEmptyList(Get(item.ex)) IN
             IF ~IsListOrTuple(ex)
             THEN [err |-> ErrExclusions, names |-> Append(known, name.s),
                   exclusions |-> excl]
             ELSE [err |-> "", names |-> Append(known, name.s),
                   exclusions |-> SetExclusions(excl, name.s,
                                                {Str(e) : e \in Range(ex.l)})]
    ELSE IF item.t = "str" THEN
        IF Duplicate(item.s, known)
        THEN [err |-> ErrDuplicate, names |-> known, exclusions |-> excl]
        ELSE [err |-> "", names |-> Append(known, item.s),
              exclusions |-> SetExclusions(excl, item.s, {})]
    ELSE [err |-> ErrEntry, names |-> known, exclusions |-> excl]

-----------------------------------------------------------------------------
(* _try_random_permutation_exclusions *)

\* Shuffles drawing every position independently (random.choices)
ShufflesWithRepeats(q) == [1..Len(q) -> Range(q)]

\* random.shuffle(targets): every rearrangement of the list
Shuffles(q) ==
    LET n == Len(q)
        idx == {p \in [1..n -> 1..n] : Range(p) = 1..n}
    IN {[j \in 1..n |-> q[p[j]]] : p \in idx}

\* PairOk without the test of the exclusions
PairOkSelfOnly(src, tgt, excl, ban) == ~(ban /\ src = tgt)

\* The test of one (src, tgt) pair in the loop over zip(people, targets)
PairOk(src, tgt, excl, ban) ==
    /\ ~(ban /\ src = tgt)
    /\ ~(src \in DOMAIN excl /\ tgt \in excl[src])

\* ok after the loop over zip(people, targets)
AllPairsOk(people, tgts, excl, ban) ==
    \A j \in DOMAIN Zip(people, tgts) : PairOk(people[j], tgts[j], excl, ban)

-----------------------------------------------------------------------------
(* create_mapping and _maximum_bipartite_matching *)

\* IsNotNone written as the truth test `if rand_map:`
IsTruthyDict(x) == ~x.none /\ x.d # <<>>

\* `rand_map is not None`
IsNotNone(x) == ~x.none

\* AllowedTargets without the ban_self test
AllowedTargetsSelf(p, people, excl, ban) ==
    SelectSeq(people, LAMBDA t : ~(p \in DOMAIN excl /\ t \in excl[p]))

\* allowed_targets of person p
AllowedTargets(p, people, excl, ban) ==
    SelectSeq(people, LAMBDA t : (~ban \/ t # p) /\ ~(p \in DOMAIN excl /\ t \in excl[p]))

RECURSIVE TryKhunFrom(_, _, _, _, _)
\* try_khun(u, visited), from the k-th element of allowed_targets[u] on:
\* whether u was matched, and visited and match_r afterwards
TryKhunFrom(u, k, visited, m, al) ==
    IF k > Len(al[u]) THEN [ok |-> FALSE, visited |-> visited, m |-> m]
    ELSE LET v == al[u][k] IN
         IF v \in visited THEN TryKhunFrom(u, k + 1, visited, m, al)
         ELSE LET vis == visited \cup {v} IN
              IF ~DictHas(m, v)
              THEN [ok |-> TRUE, visited |-> vis, m |-> DictSet(m, v, u)]
              ELSE LET sub == TryKhunFrom(DictGet(m, v), 1, vis, m, al) IN
                   IF sub.ok
                   THEN [ok |-> TRUE, visited |-> sub.visited,
                         m |-> DictSet(sub.m, v, u)]
                   ELSE TryKhunFrom(u, k + 1, sub.visited, sub.m, al)

\* try_khun without the recursive call: u takes the first free target only
TryKhunGreedy(u, visited, m, al) ==
    LET free == SelectSeq(al[u], LAMBDA v : v \notin visited /\ ~DictHas(m, v)) IN
    IF free = <<>> THEN [ok |-> FALSE, visited |-> visited, m |-> m]
    ELSE [ok |-> TRUE, visited |-> visited \cup {free[1]}, m |-> DictSet(m, free[1], u)]

TryKhun(u, visited, m, al) == TryKhunFrom(u, 1, visited, m, al)

-----------------------------------------------------------------------------
(* Actions of create_mapping *)

\* One iteration of the loop of _normalize_participants
NormalizeItem ==
    /\ pc = "normalize"
    /\ item_idx <= Len(participants)
    /\ LET r == NormalizeStep(participants[item_idx], names, exclusions) IN
       /\ names' = r.names
       /\ exclusions' = r.exclusions
       /\ err' = r.err
       /\ IF r.err # ""
          THEN pc' = "raised" /\ item_idx' = item_idx
          ELSE pc' = pc /\ item_idx' = item_idx + 1
    /\ UNCHANGED <<participants, ban_self, targets, attempt, rand_map, allowed,
                   u_idx, match_r, mapping, main_vars>>

\* The loop is over: filter the exclusions to known names and return;
\* create_mapping goes on into the random phase (targets = people[:])
NormalizeReturn ==
    /\ pc = "normalize"
    /\ item_idx > Len(participants)
    /\ exclusions' = [k \in DOMAIN exclusions |-> FilterKnown(exclusions[k], names)]
    /\ targets' = names
    /\ attempt' = 0
    /\ pc' = "random"
    /\ UNCHANGED <<participants, ban_self, err, item_idx, names, rand_map, allowed,
                   u_idx, match_r, mapping, main_vars>>

\* One attempt: shuffle, test every pair, return the dict when all pass
RandomAttempt ==
    /\ pc = "random"
    /\ attempt < MaxAttempts
    /\ \E t \in Shuffles(targets) :
         /\ attempt' = attempt + 1
         /\ IF AllPairsOk(names, t, exclusions, ban_self)
            THEN /\ rand_map' = Some(DictFromPairs(Zip(names, t)))
                 /\ targets' = <<>>
                 /\ pc' = "rand_done"
            ELSE /\ targets' = t
                 /\ UNCHANGED <<rand_map, pc>>
    /\ UNCHANGED <<participants, ban_self, err, item_idx, names, exclusions, allowed,
                   u_idx, match_r, mapping, main_vars>>

\* Every attempt failed: return None
RandomExhausted ==
    /\ pc = "random"
    /\ attempt = MaxAttempts
    /\ rand_map' = None
    /\ targets' = <<>>
    /\ pc' = "rand_done"
    /\ UNCHANGED <<participants, ban_self, err, item_idx, names, exclusions, attempt,
                   allowed, u_idx, match_r, mapping, main_vars>>

\* Return rand_map when there is one; else build allowed and start matching
CheckRandMap ==
    /\ pc = "rand_done"
    /\ IF IsNotNone(rand_map)
       THEN /\ mapping' = rand_map.d
            /\ pc' = "returned"
            /\ UNCHANGED <<allowed, u_idx, match_r>>
       ELSE /\ allowed' = [p \in Range(names) |->
                              AllowedTargets(p, names, exclusions, ban_self)]
            /\ u_idx' = 1
            /\ match_r' = <<>>
            /\ pc' = "matching"
            /\ UNCHANGED mapping
    /\ UNCHANGED <<participants, ban_self, err, item_idx, names, exclusions, targets,
                   attempt, rand_map, main_vars>>

\* One iteration of `for u in people`: a failed try_khun returns {} and
\* create_mapping raises
KuhnStep ==
    /\ pc = "matching"
    /\ u_idx <= Len(names)
    /\ LET r == TryKhun(names[u_idx], {}, match_r, allowed) IN
       IF r.ok
       THEN /\ match_r' = r.m
            /\ u_idx' = u_idx + 1
            /\ UNCHANGED <<pc, err>>
       ELSE /\ pc' = "raised"
            /\ err' = ErrNoMapping
            /\ UNCHANGED <<match_r, u_idx>>
    /\ UNCHANGED <<participants, ban_self, item_idx, names, exclusions, targets,
                   attempt, rand_map, allowed, mapping, main_vars>>

\* Every u is matched: invert match_r; create_mapping raises on an empty result
KuhnFinish ==
    /\ pc = "matching"
    /\ u_idx > Len(names)
    /\ LET result == InvertDict(match_r) IN
       IF result = <<>>
       THEN /\ pc' = "raised"
            /\ err' = ErrNoMapping
            /\ UNCHANGED mapping
       ELSE /\ mapping' = result
            /\ pc' = "returned"
            /\ UNCHANGED err
    /\ UNCHANGED <<participants, ban_self, item_idx, names, exclusions, targets,
                   attempt, rand_map, allowed, u_idx, match_r, main_vars>>

-----------------------------------------------------------------------------
(* create_mapping called directly *)

Init ==
    /\ participants \in Inputs
    /\ ban_self \in BOOLEAN
    /\ pc = "normalize"
    /\ err = ""
    /\ item_idx = 1
    /\ names = <<>>
    /\ exclusions = <<>>
    /\ targets = <<>>
    /\ attempt = 0
    /\ rand_map = None
    /\ allowed = <<>>
    /\ u_idx = 1
    /\ match_r = <<>>
    /\ mapping = <<>>
    /\ entry = "api"
    /\ path_given = FALSE
    /\ found = {}
    /\ file = <<>>
    /\ outdir = PyNone
    /\ has_reportlab = FALSE
    /\ render_fault = FALSE
    /\ render = "none"
    /\ pdfs = {}
    /\ stdout = <<>>
    /\ main_ret = None
    /\ exit_code = -1

Next ==
    \/ NormalizeItem
    \/ NormalizeReturn
    \/ RandomAttempt
    \/ RandomExhausted
    \/ CheckRandMap
    \/ KuhnStep
    \/ KuhnFinish

Spec == Init /\ [][Next]_vars

-----------------------------------------------------------------------------
(* load_participants, main and the click command *)

\* Participants files of the command: empty, the three people of the tests,
\* four entries where two exclude each other (as bare names and records),
\* the impossible pair of the tests, and a file with a duplicate name
MainFiles ==
    {<<>>,
     <<PyDict(PyStr("A"), PyList(<<>>)), PyDict(PyStr("B"), PyList(<<>>)),
       PyDict(PyStr("C"), PyList(<<>>))>>,
     <<PyDict(PyStr("A"), PyList(<<PyStr("B")>>)),
       PyDict(PyStr("B"), PyList(<<PyStr("A")>>)), PyStr("C"), PyStr("1")>>,
     <<PyDict(PyStr("A"), PyList(<<PyStr("B")>>)),
       PyDict(PyStr("B"), PyList(<<PyStr("A")>>))>>,
     <<PyStr("A"), PyDict(PyStr("A"), PyAbsent)>>}

\* The sources load_participants looks at when no path is given, in order
DefaultSources == {"env", "local", "example"}

\* Whether load_participants finds a file to read
SourceFound(given, present) ==
    IF given THEN "path" \in present ELSE present \cap DefaultSources # {}

\* The lines main prints for a mapping
PairingLines(m) ==
    <<<<"Secret Santa Pairings:\n">>>>
    \o [j \in DOMAIN m |-> <<m[j][1], " is ", m[j][2], "'s secret Santa">>]
    \o <<<<"">>>>

\* The exit code of the command for the way run_main ended
ExitCode(at, e) ==
    IF at = "main_returned" THEN 0
    ELSE IF e = "FileNotFoundError" THEN 2
    ELSE 1

\* click checks --participants (exists=True) before the command body runs
CliInvoke ==
    /\ entry = "cli"
    /\ pc = "cli"
    /\ IF path_given /\ "path" \notin found
       THEN pc' = "exited" /\ exit_code' = 2
       ELSE pc' = "load" /\ UNCHANGED exit_code
    /\ UNCHANGED <<participants, ban_self, err, item_idx, names, exclusions,
                   targets, attempt, rand_map, allowed, u_idx, match_r, mapping,
                   entry, path_given, found, file, outdir, has_reportlab,
                   render_fault, render, pdfs, stdout, main_ret>>

\* participants = load_participants(participants_path), then
\* create_mapping(participants) starts
MainLoad ==
    /\ pc = "load"
    /\ IF SourceFound(path_given, found)
       THEN /\ participants' = file
            /\ pc' = "normalize"
            /\ UNCHANGED err
       ELSE /\ pc' = "main_raised"
            /\ err' = "FileNotFoundError"
            /\ UNCHANGED participants
    /\ UNCHANGED <<ban_self, item_idx, names, exclusions, targets, attempt,
                   rand_map, allowed, u_idx, match_r, mapping, main_vars>>

\* The print statements of main
MainPrint ==
    /\ entry # "api"
    /\ pc = "returned"
    /\ stdout' = stdout \o PairingLines(mapping)
    /\ pc' = "printed"
    /\ UNCHANGED <<participants, ban_self, err, item_idx, names, exclusions,
                   targets, attempt, rand_map, allowed, u_idx, match_r, mapping,
                   entry, path_given, found, file, outdir, has_reportlab,
                   render_fault, render, pdfs, main_ret, exit_code>>

\* `if outdir:` with write_pairing_pdfs, its ImportError caught, and the return
MainRender ==
    /\ pc = "printed"
    /\ IF ~Truthy(outdir)
       THEN /\ main_ret' = Some(mapping)
            /\ pc' = "main_returned"
            /\ UNCHANGED <<render, pdfs, stdout, err>>
       ELSE IF ~has_reportlab
       THEN /\ render' = "ImportError"
            /\ stdout' = Append(stdout,
                                <<"ReportLab not installed, skipping PDF generation">>)
            /\ main_ret' = Some(mapping)
            /\ pc' = "main_returned"
            /\ UNCHANGED <<pdfs, err>>
       ELSE IF render_fault
       THEN /\ render' = "PermissionError"
            /\ err' = "PermissionError"
            /\ pc' = "main_raised"
            /\ UNCHANGED <<pdfs, stdout, main_ret>>
       ELSE /\ render' = "ok"
            /\ pdfs' = DictKeys(mapping)
            /\ main_ret' = Some(mapping)
            /\ pc' = "main_returned"
            /\ UNCHANGED <<stdout, err>>
    /\ UNCHANGED <<participants, ban_self, item_idx, names, exclusions, targets,
                   attempt, rand_map, allowed, u_idx, match_r, mapping, entry,
                   path_given, found, file, outdir, has_reportlab, render_fault,
                   exit_code>>

\* The command ends: FileNotFoundError is exit code 2, any other exception
\* leaves the command with code 1, a return with code 0
CliExit ==
    /\ entry = "cli"
    /\ pc \in {"raised", "main_raised", "main_returned"}
    /\ exit_code' = ExitCode(pc, err)
    /\ pc' = "exited"
    /\ UNCHANGED <<participants, ban_self, err, item_idx, names, exclusions,
                   targets, attempt, rand_map, allowed, u_idx, match_r, mapping,
                   entry, path_given, found, file, outdir, has_reportlab,
                   render_fault, render, pdfs, stdout, main_ret>>

\* main called directly ("main") or through the command ("cli")
InitMain ==
    /\ entry \in {"main", "cli"}
    /\ pc = (IF entry = "cli" THEN "cli" ELSE "load")
    /\ file \in MainFiles
    /\ path_given \in BOOLEAN
    /\ found \in SUBSET ({"path"} \cup DefaultSources)
    /\ outdir \in {PyNone, PyStr(""), PyStr("out")}
    /\ has_reportlab \in BOOLEAN
    /\ render_fault \in BOOLEAN
    /\ participants = <<>>
    /\ ban_self = TRUE
    /\ err = ""
    /\ item_idx = 1
    /\ names = <<>>
    /\ exclusions = <<>>
    /\ targets = <<>>
    /\ attempt = 0
    /\ rand_map = None
    /\ allowed = <<>>
    /\ u_idx = 1
    /\ match_r = <<>>
    /\ mapping = <<>>
    /\ render = "none"
    /\ pdfs = {}
    /\ stdout = <<>>
    /\ main_ret = None
    /\ exit_code = -1

NextMain ==
    \/ CliInvoke
    \/ MainLoad
    \/ NormalizeItem
    \/ NormalizeReturn
    \/ RandomAttempt
    \/ RandomExhausted
    \/ CheckRandMap
    \/ KuhnStep
    \/ KuhnFinish
    \/ MainPrint
    \/ MainRender
    \/ CliExit

SpecMain == InitMain /\ [][NextMain]_vars

-----------------------------------------------------------------------------
(* What the claims speak of *)

\* _normalize_participants has returned its model to create_mapping
NormReturned ==
    \/ pc \in {"random", "rand_done", "matching", "returned"}
    \/ pc = "raised" /\ err = ErrNoMapping

\* create_mapping has neither returned nor raised
Running == pc \notin {"returned", "raised"}

\* An input entry that carries a name, and the name
HasName(item) ==
    \/ item.t = "str"
    \/ item.t = "dict" /\ "name" \in DOMAIN item /\ item.name.t = "str"
InputName(item) == IF item.t = "str" THEN item.s ELSE item.name.s

\* The entries of the exclusions list of an input entry
InputEntries(item) ==
    IF item.t = "dict" /\ "ex" \in DOMAIN item /\ item.ex.t \in {"list", "tuple"}
    THEN Range(item.ex.l) ELSE {}

\* A record entry whose exclusions field has a value (it is neither missing
\* nor null) that is not a list
NonListExclusions(item) ==
    item.t = "dict" /\ "ex" \in DOMAIN item
                    /\ item.ex.t \notin {"absent", "none", "list"}

HasDuplicateNames ==
    \E i, j \in DOMAIN participants :
        /\ i < j
        /\ HasName(participants[i]) /\ HasName(participants[j])
        /\ InputName(participants[i]) = InputName(participants[j])

\* The rule of the specification: target t is permitted for giver p
Permitted(p, t) == (ban_self => t # p) /\ t \notin exclusions[p]

\* The bijections from the positions of names onto themselves
Bijections == {f \in [DOMAIN names -> DOMAIN names] : Range(f) = DOMAIN names}

\* Some permutation of the normalized names satisfies every constraint
Satisfiable ==
    \E f \in Bijections : \A j \in DOMAIN names : Permitted(names[j], names[f[j]])

-----------------------------------------------------------------------------
(* Claims *)

\* C1: every mapping create_mapping returns is a permutation of the
\* normalized names: its keys are the names, its values are the names, and no
\* name is the value of two keys.
C1_ReturnedMappingIsPermutation ==
    pc = "returned" =>
        /\ DictKeys(mapping) = Range(names)
        /\ DictValues(mapping) = Range(names)
        /\ Len(mapping) = Len(names)
        /\ \A i, j \in DOMAIN mapping :
              (mapping[i][1] = mapping[j][1] \/ mapping[i][2] = mapping[j][2]) => i = j

\* a mapping of three people returned by the matching fallback
C1_Witness == pc = "returned" /\ rand_map.none /\ Len(mapping) = 3

\* C2: in every returned mapping no giver's target is in the giver's
\* (filtered) exclusion set, and with ban_self no giver is its own target.
C2_ReturnedMappingHonoursConstraints ==
    pc = "returned" =>
        \A j \in DOMAIN mapping :
            /\ mapping[j][2] \notin exclusions[mapping[j][1]]
            /\ ban_self => mapping[j][2] # mapping[j][1]

\* a mapping returned by the random phase for three people with exclusions
C2_Witness ==
    /\ pc = "returned" /\ ~rand_map.none /\ ban_self /\ Len(names) = 3
    /\ \A p \in Range(names) : exclusions[p] # {}

\* C3: when some permutation satisfies the exclusions and the ban_self rule,
\* create_mapping never raises and goes on until it returns, also when every
\* random attempt failed.
C3_SatisfiableNeverRaises ==
    (NormReturned /\ Satisfiable) => pc # "raised" /\ (Running => ENABLED Next)

\* a constrained instance solved by the matching alone, after every random
\* attempt failed
C3_Witness ==
    /\ pc = "returned" /\ rand_map.none /\ attempt = MaxAttempts
    /\ Len(names) = 3 /\ \E p \in Range(names) : Cardinality(exclusions[p]) = 2

\* C4: when no permutation satisfies the constraints, create_mapping never
\* returns a mapping and never stops before raising; it raises the "no valid
\* mapping" ValueError, and only after the random phase used up its attempts
\* and the matching ran and left some giver unmatched.
C4_UnsatisfiableRaises ==
    (NormReturned /\ ~Satisfiable) =>
        /\ pc # "returned"
        /\ Running => ENABLED Next
        /\ pc = "raised" =>
              /\ err = ErrNoMapping
              /\ attempt = MaxAttempts /\ rand_map.none
              /\ DOMAIN allowed = Range(names)
              /\ u_idx \in DOMAIN names
              /\ names[u_idx] \notin DictValues(match_r)

\* the two people of the tests who exclude each other
C4_Witness ==
    /\ pc = "raised" /\ err = ErrNoMapping /\ ban_self /\ Len(names) = 2
    /\ \A p \in Range(names) : exclusions[p] = Range(names) \ {p}

\* C5: an empty participant list gives the empty mapping and no error, for
\* either value of ban_self.
C5_EmptyInputEmptyMapping ==
    participants = <<>> =>
        /\ pc # "raised"
        /\ Running => ENABLED Next
        /\ pc = "returned" => mapping = <<>>

C5_Witness == participants = <<>> /\ pc = "returned" /\ mapping = <<>> /\ ban_self

\* C6: normalization never gets past a record entry whose exclusions field
\* has a value that is not a list (an empty string, 0, false, an empty record
\* and a tuple included): it fails there with a validation error.
C6_NonListExclusionsRejected ==
    \A j \in DOMAIN participants :
        NonListExclusions(participants[j]) => item_idx <= j

\* C7: after normalization the name list is the input names in input order,
\* and the exclusion set of every participant is exactly its input exclusion
\* entries (as strings) that name a participant of the input, earlier or later.
C7_NormalizedModel ==
    NormReturned =>
        /\ \A j \in DOMAIN participants : HasName(participants[j])
        /\ names = [j \in DOMAIN participants |-> InputName(participants[j])]
        /\ DOMAIN exclusions = Range(names)
        /\ \A j \in DOMAIN participants :
              exclusions[names[j]] =
                  {Str(e) : e \in InputEntries(participants[j])} \cap Range(names)

\* a participant who lists an unknown name and excludes a later participant
C7_Witness ==
    /\ NormReturned
    /\ \E j, k \in DOMAIN participants :
          /\ j < k
          /\ "Ghost" \in {Str(e) : e \in InputEntries(participants[j])}
          /\ names[k] \in exclusions[names[j]]

\* C8: an input with two entries of the same name, in whatever forms, is
\* never normalized: normalization raises a validation error.
C8_DuplicateNamesRejected ==
    HasDuplicateNames =>
        /\ ~NormReturned
        /\ Running => ENABLED Next
        /\ pc = "raised" => err \in NormErrors

\* a bare name followed by a record of the same name
C8_Witness ==
    /\ pc = "raised" /\ err = ErrDuplicate /\ Len(participants) = 2
    /\ participants[1].t = "str" /\ participants[2].t = "dict"

\* C9: once create_mapping has returned a mapping, no failure of
\* write_pairing_pdfs (a missing library or any other error) makes main fail:
\* main returns the mapping, and the command exits with code 0.
C9_RenderFailureKeepsMapping ==
    (render \in {"ImportError", "PermissionError"} /\ mapping # <<>>) =>
        /\ pc \in {"main_returned", "exited"}
        /\ main_ret = Some(mapping)
        /\ pc = "exited" => exit_code = 0

\* C10: a run with an output directory whose PDFs were written exits with
\* code 0 and prints no pairing listing.
C10_NoListingWhenPdfsWritten ==
    (pc = "exited" /\ Truthy(outdir) /\ render = "ok" /\ pdfs # {}) =>
        /\ exit_code = 0
        /\ \A j \in DOMAIN stdout : stdout[j] \notin Range(PairingLines(mapping))

====
